---------------------------- MODULE Spec2Model ----------------------------
(***************************************************************************)
(* A model of the Storybook CLI fragment:                                  *)
(*   - getVersionSpecifier, checkInstalled, isCoreAddon, isValidVersion    *)
(*     and the add() workflow of the "add addon" command;                  *)
(*   - the viteFinal hook of the vue3-vite preset.                         *)
(*                                                                         *)
(* JavaScript strings are sequences of one-character strings, so that the  *)
(* regular expression, endsWith and the template literals are computed     *)
(* character by character.  The JavaScript value undefined is the tuple    *)
(* <<"undefined">>, which no string of characters equals.                  *)
(***************************************************************************)
EXTENDS Integers, Sequences, FiniteSets, TLC

VARIABLES
  \* ---- getVersionSpecifier on its own
  gvsInput, gvsResult, gvsPc,
  \* ---- viteFinal
  viteConfig, viteResult, vitePc,
  \* ---- add(): the arguments and the environment of one invocation
  addon, options, env,
  diskBefore,       \* the addons field of the main config file at the start
  \* ---- add(): the collaborators' observable state
  disk,             \* the addons field of the main config file on disk
  installed,        \* package specs the package manager has installed
  calls,            \* how often each external call was attempted
  depArgs,          \* the specs handed to addDependencies, in order
  postinstallArgs,  \* the arguments of each postinstallAddon call, in order
  log,              \* what was written to the logger, in order
  \* ---- add(): the function's own position and locals
  pc, outcome, thrownBy,
  addonName, inputVersion, configDir, mainConfig, main, storybookVersion,
  version, addonWithVersion

gvsVars == <<gvsInput, gvsResult, gvsPc>>
viteVars == <<viteConfig, viteResult, vitePc>>
addInputs == <<addon, options, env, diskBefore>>
addEffects == <<disk, installed, calls, depArgs, postinstallArgs, log>>
addLocals == <<pc, outcome, thrownBy, addonName, inputVersion, configDir,
               mainConfig, main, storybookVersion, version, addonWithVersion>>
addVars == <<addInputs, addEffects, addLocals>>
vars == <<gvsVars, viteVars, addVars>>

-----------------------------------------------------------------------------
(* Strings *)

Undefined == <<"undefined">>

Empty == <<>>

\* JavaScript truthiness of a string-or-undefined value.
Truthy(v) == v /= Undefined /\ v /= Empty

\* The longest input string of the getVersionSpecifier specification.
MaxLen == 4

\* The characters of those inputs: the separator, a name character, the
\* scope slash and a line terminator (which '.' of a regex does not match).
Alphabet == {"@", "a", "/", "\n"}

Strings(n) == UNION {[1..k -> Alphabet] : k \in 0..n}

Digits == {"0", "1", "2", "3", "4", "5", "6", "7", "8", "9"}

Letters == {"a", "b", "c", "d", "e", "f", "g", "h", "i", "j", "k", "l", "m",
            "n", "o", "p", "q", "r", "s", "t", "u", "v", "w", "x", "y", "z"}

LineTerminators == {"\n", "\r"}

\* String.prototype.endsWith
EndsWith(s, suffix) ==
  /\ Len(suffix) <= Len(s)
  /\ SubSeq(s, Len(s) - Len(suffix) + 1, Len(s)) = suffix

\* s from position i (1-based) to its end
From(s, i) == SubSeq(s, i, Len(s))

\* The first position >= i of s that holds character c, or Len(s) + 1.
RECURSIVE IndexOf(_, _, _)
IndexOf(s, c, i) ==
  IF i > Len(s) THEN Len(s) + 1
  ELSE IF s[i] = c THEN i
  ELSE IndexOf(s, c, i + 1)

\* The last position of s that holds character c, or 0.
RECURSIVE LastIndexOf(_, _, _)
LastIndexOf(s, c, i) ==
  IF i < 1 THEN 0
  ELSE IF s[i] = c THEN i
  ELSE LastIndexOf(s, c, i - 1)

AddonDocs == <<"@", "s", "t", "o", "r", "y", "b", "o", "o", "k", "/", "a", "d", "d", "o", "n", "-", "d", "o", "c", "s">>
DocsSuffix == <<"a", "d", "d", "o", "n", "-", "d", "o", "c", "s">>
Aa == <<"a", "a">>
V701 == <<"7", ".", "0", ".", "1">>
V700 == <<"7", ".", "0", ".", "0">>
V210 == <<"2", ".", "1", ".", "0">>
VNext == <<"n", "e", "x", "t">>
VMajor == <<"7">>
VCaret == <<"^", "2", ".", "1", ".", "0">>
At == <<"@">>
AddonDocs701 == AddonDocs \o At \o V701
DotStorybook == <<".", "s", "t", "o", "r", "y", "b", "o", "o", "k">>
CfgDir == <<"c", "f", "g">>
PkgDir == <<"s", "b">>

-----------------------------------------------------------------------------
(* getVersionSpecifier: /^(@{0,1}[^@]+)(?:@(.+))?$/.exec(addon) *)

\* The regular expression's two groups, or Undefined when it does not match.
\* Group 1 is an optional leading '@' and then the longest run of characters
\* other than '@' (at least one); the optional part is one '@' followed by
\* at least one character, none a line terminator, up to the end of input.
VersionRegexExec(s) ==
  LET start == IF Len(s) >= 1 /\ s[1] = "@" THEN 2 ELSE 1
      stop == IndexOf(s, "@", start)
  IN  IF stop = start THEN Undefined
      ELSE IF stop = Len(s) + 1 THEN <<s, Undefined>>
      ELSE IF /\ stop < Len(s)
              /\ \A i \in (stop + 1)..Len(s) : s[i] \notin LineTerminators
           THEN <<SubSeq(s, 1, stop - 1), From(s, stop + 1)>>
      ELSE Undefined

\* A plausible slip: the split is made at the last '@' instead.
getVersionSpecifierLastAt(s) ==
  LET at == LastIndexOf(s, "@", Len(s))
  IN  IF at > 1 /\ at < Len(s)
      THEN <<SubSeq(s, 1, at - 1), From(s, at + 1)>>
      ELSE <<s, Undefined>>

getVersionSpecifier(s) ==
  LET groups == VersionRegexExec(s)
  IN  IF groups /= Undefined THEN <<groups[1], groups[2]>>
      ELSE <<s, Undefined>>

-----------------------------------------------------------------------------
(* isValidVersion: SemVer.valid(version) || version.match(/^\d+$/) *)

\* The pieces of s between the occurrences of character c.
RECURSIVE SplitOn(_, _)
SplitOn(s, c) ==
  LET at == IndexOf(s, c, 1)
  IN  IF at > Len(s) THEN <<s>>
      ELSE <<SubSeq(s, 1, at - 1)>> \o SplitOn(From(s, at + 1), c)

AllIn(s, chars) == \A i \in 1..Len(s) : s[i] \in chars

\* /^\d+$/
AllDigits(s) == Len(s) >= 1 /\ AllIn(s, Digits)

\* semver's numeric identifier: 0|[1-9]\d*
NumericId(s) == AllDigits(s) /\ (Len(s) > 1 => s[1] /= "0")

\* semver's prerelease identifier: numeric, or alphanumeric with a non-digit
PrereleaseId(s) ==
  /\ Len(s) >= 1
  /\ AllIn(s, Digits \cup Letters \cup {"-"})
  /\ (AllIn(s, Digits) => NumericId(s))

\* semver's build identifier: [0-9A-Za-z-]+
BuildId(s) == Len(s) >= 1 /\ AllIn(s, Digits \cup Letters \cup {"-"})

\* dot-separated identifiers
PrereleaseIds(s) ==
  LET ids == SplitOn(s, ".") IN \A i \in 1..Len(ids) : PrereleaseId(ids[i])

BuildIds(s) ==
  LET ids == SplitOn(s, ".") IN \A i \in 1..Len(ids) : BuildId(ids[i])

\* SemVer.valid(version) is not null: version is v?X.Y.Z(-prerelease)?(+build)?
SemVerValid(s) ==
  LET body == IF Len(s) >= 1 /\ s[1] = "v" THEN From(s, 2) ELSE s
      plus == IndexOf(body, "+", 1)
      noBuild == SubSeq(body, 1, plus - 1)
      dash == IndexOf(noBuild, "-", 1)
      core == SplitOn(SubSeq(noBuild, 1, dash - 1), ".")
  IN  /\ Len(core) = 3
      /\ \A i \in 1..3 : NumericId(core[i])
      /\ (dash <= Len(noBuild) => PrereleaseIds(From(noBuild, dash + 1)))
      /\ (plus <= Len(body) => BuildIds(From(body, plus + 1)))

isValidVersion(v) == SemVerValid(v) \/ AllDigits(v)

-----------------------------------------------------------------------------
(* checkInstalled, isCoreAddon *)

\* An entry of the addons list: a plain string (str), or an object whose
\* name field is a string or undefined.
StringEntry(s) == [str |-> TRUE, name |-> s]
ObjectEntry(n) == [str |-> FALSE, name |-> n]

\* A main config object: its addons field may be absent.
MainObject(entries) == [hasAddons |-> TRUE, addons |-> entries]
NoAddonsField == [hasAddons |-> FALSE, addons |-> <<>>]

\* name?.endsWith(addonName), as a condition
EntryMatches(entry, name) ==
  entry.name /= Undefined /\ EndsWith(entry.name, name)

\* Array.prototype.find: the position of the first entry that ends with
\* name, or 0 when find returns undefined.
RECURSIVE FindEntry(_, _, _)
FindEntry(entries, name, i) ==
  IF i > Len(entries) THEN 0
  ELSE IF EntryMatches(entries[i], name) THEN i
  ELSE FindEntry(entries, name, i + 1)

\* !!existingAddon: undefined is falsy, an object is truthy, a string is
\* truthy unless it is empty.
ExistingAddonTruthy(entries, at) ==
  /\ at /= 0
  /\ (entries[at].str => entries[at].name /= Empty)

\* m is the object requireMain returned; main.addons?.find(...)
checkInstalled(name, m) ==
  /\ m.hasAddons
  /\ ExistingAddonTruthy(m.addons, FindEntry(m.addons, name, 1))

\* The names in the versions table of storybook/internal/common.
versions == {AddonDocs, <<"s", "t", "o", "r", "y", "b", "o", "o", "k">>}

isCoreAddon(name) == name \in versions

-----------------------------------------------------------------------------
(* add(): inputs *)

Npm == <<"n", "p", "m">>
Pnpm == <<"p", "n", "p", "m">>
MainPath == <<"m", "a", "i", "n", ".", "t", "s">>

\* The addon argument of the command line.
AddonInputs ==
  { AddonDocs701, AddonDocs, AddonDocs \o At \o VNext, DocsSuffix,
    Aa, Aa \o At \o VMajor, Aa \o At \o VCaret, Empty }

\* CLIOptions
OptionInputs ==
  [ packageManager : {Undefined, Pnpm},
    skipPostinstall : BOOLEAN,
    configDir : {Undefined, Empty, CfgDir} ]

\* What the collaborators answer during one invocation: getStorybookInfo's
\* mainConfig and configDir, getCoercedStorybookVersion's version, the
\* registry's latest version, the type of the detected package manager.
EnvInputs ==
  [ mainConfig : {Undefined, MainPath},
    configDir : {Undefined, PkgDir},
    storybookVersion : {Undefined, V700, V701},
    latest : {V210, V700},
    detected : {Npm} ]

\* The main config file before the invocation.
DiskInputs ==
  { NoAddonsField,
    MainObject(<<>>),
    MainObject(<<StringEntry(AddonDocs)>>),
    MainObject(<<StringEntry(Aa), ObjectEntry(AddonDocs)>>),
    MainObject(<<ObjectEntry(Undefined), StringEntry(Aa)>>),
    MainObject(<<StringEntry(Empty)>>) }

CallNames ==
  { "getPackageManager", "retrievePackageJson", "getStorybookInfo",
    "serverRequire", "readConfig", "getCoercedStorybookVersion",
    "latestVersion", "addDependencies", "writeConfig", "postinstallAddon" }

Message(level, msg, arg) == [level |-> level, msg |-> msg, arg |-> arg]

\* packageManager.type of JsPackageManagerFactory.getPackageManager({force})
PackageManagerType ==
  IF options.packageManager /= Undefined THEN options.packageManager
  ELSE env.detected

-----------------------------------------------------------------------------
(* add(): the straight-line pieces *)

\* A plausible slip: the default is left out.
ResolveConfigDirNoDefault(user, inferred) ==
  IF Truthy(user) THEN user
  ELSE IF Truthy(inferred) THEN inferred
  ELSE Undefined

\* userSpecifiedConfigDir || inferredConfigDir || '.storybook'
ResolveConfigDir(user, inferred) ==
  IF Truthy(user) THEN user
  ELSE IF Truthy(inferred) THEN inferred
  ELSE DotStorybook

\* A plausible slip: the installed Storybook version wins over the input.
PickVersionToolFirst(input, name, sbVersion) ==
  IF isCoreAddon(name) /\ Truthy(sbVersion) THEN sbVersion ELSE input

\* let version = inputVersion;
\* if (!version && isCoreAddon(addonName) && storybookVersion) version = storybookVersion
PickVersion(input, name, sbVersion) ==
  IF ~Truthy(input) /\ isCoreAddon(name) /\ Truthy(sbVersion)
  THEN sbVersion
  ELSE input

\* A plausible slip: the version is passed on as given.
FormatSpecVerbatim(name, v) == name \o At \o v

\* isValidVersion(version) ? `${addonName}@^${version}` : `${addonName}@${version}`
FormatSpec(name, v) ==
  IF isValidVersion(v) THEN name \o <<"@", "^">> \o v
  ELSE name \o At \o v

\* A plausible slip: the opt-out flag is not looked at.
ShouldPostinstallIgnoringSkip(skip, name) == isCoreAddon(name)

\* !skipPostinstall && isCoreAddon(addonName)
ShouldPostinstall(skip, name) == ~skip /\ isCoreAddon(name)

\* main.appendValueToArray(['addons'], addonName): the field is created
\* when it is absent.
appendValueToArray(m, name) ==
  MainObject(m.addons \o <<StringEntry(name)>>)

-----------------------------------------------------------------------------
(* add(): the workflow, one action per stretch of code up to the outcome   *)
(* of the call it awaits                                                   *)

Bump(c) == [calls EXCEPT ![c] = @ + 1]

\* An awaited call rejects: the error leaves add() uncaught.
Throw(by) ==
  /\ pc' = "done"
  /\ outcome' = "threw"
  /\ thrownBy' = by

Return ==
  /\ pc' = "done"
  /\ outcome' = "returned"
  /\ thrownBy' = thrownBy

Goto(next) ==
  /\ pc' = next
  /\ UNCHANGED <<outcome, thrownBy>>

InitAdd ==
  /\ addon \in AddonInputs
  /\ options \in OptionInputs
  /\ env \in EnvInputs
  /\ disk \in DiskInputs
  /\ diskBefore = disk
  /\ installed = <<>>
  /\ calls = [c \in CallNames |-> 0]
  /\ depArgs = <<>>
  /\ postinstallArgs = <<>>
  /\ log = <<>>
  /\ pc = "start"
  /\ outcome = "running"
  /\ thrownBy = "none"
  /\ addonName = Undefined
  /\ inputVersion = Undefined
  /\ configDir = Undefined
  /\ mainConfig = Undefined
  /\ main = NoAddonsField
  /\ storybookVersion = Undefined
  /\ version = Undefined
  /\ addonWithVersion = Undefined

\* Lines 84-87: parse the argument, get the package manager, await
\* retrievePackageJson.
RetrievePackageJsonOk ==
  /\ pc = "start"
  /\ addonName' = getVersionSpecifier(addon)[1]
  /\ inputVersion' = getVersionSpecifier(addon)[2]
  /\ calls' = [calls EXCEPT !["getPackageManager"] = @ + 1,
                            !["retrievePackageJson"] = @ + 1]
  /\ Goto("locate")
  /\ UNCHANGED <<gvsVars, viteVars, addInputs, disk, installed, depArgs,
                 postinstallArgs, log,
                 configDir, mainConfig, main, storybookVersion, version,
                 addonWithVersion>>

RetrievePackageJsonRejects ==
  /\ pc = "start"
  /\ addonName' = getVersionSpecifier(addon)[1]
  /\ inputVersion' = getVersionSpecifier(addon)[2]
  /\ calls' = [calls EXCEPT !["getPackageManager"] = @ + 1,
                            !["retrievePackageJson"] = @ + 1]
  /\ Throw("retrievePackageJson")
  /\ UNCHANGED <<gvsVars, viteVars, addInputs, disk, installed, depArgs,
                 postinstallArgs, log,
                 configDir, mainConfig, main, storybookVersion, version,
                 addonWithVersion>>

\* A plausible slip: the missing main config is not checked.
MainConfigMissingNever(found) == FALSE

\* !mainConfig
MainConfigMissing(found) == ~Truthy(found)

\* Lines 88-113: getStorybookInfo, the config directory, the two soft
\* aborts, then await readConfig.
LocateAndReadConfig ==
  /\ pc = "locate"
  /\ mainConfig' = env.mainConfig
  /\ configDir' = ResolveConfigDir(options.configDir, env.configDir)
  /\ IF configDir' = Undefined
     THEN /\ calls' = Bump("getStorybookInfo")
          /\ Throw("configDir")
          /\ UNCHANGED <<log, main>>
     ELSE IF MainConfigMissing(mainConfig')
     THEN /\ calls' = Bump("getStorybookInfo")
          /\ log' = Append(log, Message("error", "Unable to find main", Empty))
          /\ Return
          /\ UNCHANGED main
     ELSE IF checkInstalled(addonName, disk)
     THEN /\ calls' = [calls EXCEPT !["getStorybookInfo"] = @ + 1,
                                    !["serverRequire"] = @ + 1]
          /\ log' = Append(log, Message("error", "already present", addonName))
          /\ Return
          /\ UNCHANGED main
     ELSE /\ calls' = [calls EXCEPT !["getStorybookInfo"] = @ + 1,
                                    !["serverRequire"] = @ + 1,
                                    !["readConfig"] = @ + 1]
          /\ \/ /\ main' = disk
                /\ log' = Append(log, Message("log", "Verifying", addonName))
                /\ Goto("coerce")
             \/ /\ Throw("readConfig")
                /\ UNCHANGED <<log, main>>
  /\ UNCHANGED <<gvsVars, viteVars, addInputs, disk, installed, depArgs,
                 postinstallArgs,
                 addonName, inputVersion, storybookVersion, version,
                 addonWithVersion>>

\* Lines 115-121: await getCoercedStorybookVersion, then choose the version.
GetCoercedStorybookVersionOk ==
  /\ pc = "coerce"
  /\ calls' = Bump("getCoercedStorybookVersion")
  /\ storybookVersion' = env.storybookVersion
  /\ version' = PickVersion(inputVersion, addonName, storybookVersion')
  /\ IF ~Truthy(version') THEN Goto("latest") ELSE Goto("install")
  /\ UNCHANGED <<gvsVars, viteVars, addInputs, disk, installed, depArgs,
                 postinstallArgs, log,
                 addonName, inputVersion, configDir, mainConfig, main,
                 addonWithVersion>>

GetCoercedStorybookVersionRejects ==
  /\ pc = "coerce"
  /\ calls' = Bump("getCoercedStorybookVersion")
  /\ Throw("getCoercedStorybookVersion")
  /\ UNCHANGED <<gvsVars, viteVars, addInputs, disk, installed, depArgs,
                 postinstallArgs, log,
                 addonName, inputVersion, configDir, mainConfig, main,
                 storybookVersion, version, addonWithVersion>>

\* Lines 122-124: await packageManager.latestVersion(addonName).
LatestVersionOk ==
  /\ pc = "latest"
  /\ calls' = Bump("latestVersion")
  /\ version' = env.latest
  /\ Goto("install")
  /\ UNCHANGED <<gvsVars, viteVars, addInputs, disk, installed, depArgs,
                 postinstallArgs, log,
                 addonName, inputVersion, configDir, mainConfig, main,
                 storybookVersion, addonWithVersion>>

LatestVersionRejects ==
  /\ pc = "latest"
  /\ calls' = Bump("latestVersion")
  /\ Throw("latestVersion")
  /\ UNCHANGED <<gvsVars, viteVars, addInputs, disk, installed, depArgs,
                 postinstallArgs, log,
                 addonName, inputVersion, configDir, mainConfig, main,
                 storybookVersion, version, addonWithVersion>>

\* Lines 126-136: the compatibility warning, the package spec, the log line.
BeforeInstall ==
  /\ addonWithVersion' = FormatSpec(addonName, version)
  /\ log' = (IF isCoreAddon(addonName) /\ version /= storybookVersion
             THEN Append(log, Message("warn", "version mismatch", addonName))
             ELSE log)
            \o <<Message("log", "Installing", addonWithVersion')>>
  /\ calls' = Bump("addDependencies")
  /\ depArgs' = Append(depArgs, addonWithVersion')

\* Lines 126-137: await packageManager.addDependencies(..., [addonWithVersion]).
AddDependenciesOk ==
  /\ pc = "install"
  /\ BeforeInstall
  /\ installed' = Append(installed, addonWithVersion')
  /\ Goto("write")
  /\ UNCHANGED <<gvsVars, viteVars, addInputs, disk, postinstallArgs,
                 addonName, inputVersion,
                 configDir, mainConfig, main, storybookVersion, version>>

\* A plausible slip: the install error is caught and the workflow goes on.
AddDependenciesRejectsSwallowed ==
  /\ pc = "install"
  /\ BeforeInstall
  /\ Goto("write")
  /\ UNCHANGED <<gvsVars, viteVars, addInputs, disk, installed,
                 postinstallArgs, addonName,
                 inputVersion, configDir, mainConfig, main, storybookVersion,
                 version>>

AddDependenciesRejects ==
  /\ pc = "install"
  /\ BeforeInstall
  /\ Throw("addDependencies")
  /\ UNCHANGED <<gvsVars, viteVars, addInputs, disk, installed,
                 postinstallArgs, addonName,
                 inputVersion, configDir, mainConfig, main, storybookVersion,
                 version>>

\* Lines 139-140: the log line and the in-memory append.
BeforeWrite ==
  /\ log' = Append(log, Message("log", "Adding", addon))
  /\ main' = appendValueToArray(main, addonName)
  /\ calls' = Bump("writeConfig")

\* Lines 139-143: await writeConfig(main), then decide on the hook.
WriteConfigOk ==
  /\ pc = "write"
  /\ BeforeWrite
  /\ disk' = main'
  /\ IF ShouldPostinstall(options.skipPostinstall, addonName)
     THEN Goto("postinstall")
     ELSE Return
  /\ UNCHANGED <<gvsVars, viteVars, addInputs, installed, depArgs,
                 postinstallArgs, addonName,
                 inputVersion, configDir, mainConfig, storybookVersion,
                 version, addonWithVersion>>

\* A plausible slip: the hook runs although the write failed.
WriteConfigRejectsThenHook ==
  /\ pc = "write"
  /\ BeforeWrite
  /\ pc' = "postinstall"
  /\ outcome' = outcome
  /\ thrownBy' = "writeConfig"
  /\ UNCHANGED <<gvsVars, viteVars, addInputs, disk, installed, depArgs,
                 postinstallArgs,
                 addonName, inputVersion, configDir, mainConfig,
                 storybookVersion, version, addonWithVersion>>

\* writeConfig rejects: the file is left as it was.
WriteConfigRejects ==
  /\ pc = "write"
  /\ BeforeWrite
  /\ Throw("writeConfig")
  /\ UNCHANGED <<gvsVars, viteVars, addInputs, disk, installed, depArgs,
                 postinstallArgs,
                 addonName, inputVersion, configDir, mainConfig,
                 storybookVersion, version, addonWithVersion>>

\* Line 144: what postinstallAddon is called with.
BeforePostinstall ==
  /\ calls' = Bump("postinstallAddon")
  /\ postinstallArgs' =
       Append(postinstallArgs,
              [name |-> addonName,
               packageManager |-> PackageManagerType,
               configDir |-> configDir])

\* Lines 143-145: await postinstallAddon(addonName, {packageManager, configDir}).
PostinstallAddonOk ==
  /\ pc = "postinstall"
  /\ BeforePostinstall
  /\ Return
  /\ UNCHANGED <<gvsVars, viteVars, addInputs, disk, installed, depArgs, log,
                 addonName,
                 inputVersion, configDir, mainConfig, main, storybookVersion,
                 version, addonWithVersion>>

PostinstallAddonRejects ==
  /\ pc = "postinstall"
  /\ BeforePostinstall
  /\ Throw("postinstallAddon")
  /\ UNCHANGED <<gvsVars, viteVars, addInputs, disk, installed, depArgs, log,
                 addonName,
                 inputVersion, configDir, mainConfig, main, storybookVersion,
                 version, addonWithVersion>>

\* The other two programs do not run in this specification.
IdleGvs == gvsInput = Empty /\ gvsResult = <<Empty, Undefined>> /\ gvsPc = "idle"
IdleVite == vitePc = "idle" /\ viteConfig = <<>> /\ viteResult = <<>>

Init == InitAdd /\ IdleGvs /\ IdleVite

Next ==
  \/ RetrievePackageJsonOk
  \/ RetrievePackageJsonRejects
  \/ LocateAndReadConfig
  \/ GetCoercedStorybookVersionOk
  \/ GetCoercedStorybookVersionRejects
  \/ LatestVersionOk
  \/ LatestVersionRejects
  \/ AddDependenciesOk
  \/ AddDependenciesRejects
  \/ WriteConfigOk
  \/ WriteConfigRejects
  \/ PostinstallAddonOk
  \/ PostinstallAddonRejects

Spec == Init /\ [][Next]_vars

-----------------------------------------------------------------------------
(* getVersionSpecifier applied to every short string *)

IdleAdd ==
  /\ addon = Empty
  /\ options = [packageManager |-> Undefined, skipPostinstall |-> FALSE,
                configDir |-> Undefined]
  /\ env = [mainConfig |-> Undefined, configDir |-> Undefined,
            storybookVersion |-> Undefined, latest |-> V210, detected |-> Npm]
  /\ disk = NoAddonsField
  /\ diskBefore = NoAddonsField
  /\ installed = <<>>
  /\ calls = [c \in CallNames |-> 0]
  /\ depArgs = <<>>
  /\ postinstallArgs = <<>>
  /\ log = <<>>
  /\ pc = "idle"
  /\ outcome = "idle"
  /\ thrownBy = "none"
  /\ addonName = Undefined
  /\ inputVersion = Undefined
  /\ configDir = Undefined
  /\ mainConfig = Undefined
  /\ main = NoAddonsField
  /\ storybookVersion = Undefined
  /\ version = Undefined
  /\ addonWithVersion = Undefined

GvsInputs == Strings(MaxLen) \cup AddonInputs

InitGvs ==
  /\ gvsInput \in GvsInputs
  /\ gvsResult = <<Empty, Undefined>>
  /\ gvsPc = "call"
  /\ IdleVite
  /\ IdleAdd

CallGetVersionSpecifier ==
  /\ gvsPc = "call"
  /\ gvsResult' = getVersionSpecifier(gvsInput)
  /\ gvsPc' = "returned"
  /\ UNCHANGED <<gvsInput, viteVars, addVars>>

NextGvs == CallGetVersionSpecifier

SpecGvs == InitGvs /\ [][NextGvs]_vars

-----------------------------------------------------------------------------
(* viteFinal of the vue3-vite preset *)

\* The longest plugin list of a caller's config.
MaxPlugins == 2

\* Plugins are known by their name.
PluginNames == {"vite:vue", "vite:react", "vite:inspect"}

VuePlugin == "vite:vue"
VueComponentMetaPlugin == "storybook:vue-component-meta-plugin"
VueEsmBundler == "vue/dist/vue.esm-bundler.js"

PluginLists == UNION {[1..k -> PluginNames] : k \in 0..MaxPlugins}

\* resolve.alias of a caller's config: a mapping of some module names.
AliasInputs ==
  UNION { [keys -> {"/src", "vue/dist/vue.runtime.esm-bundler.js"}] :
            keys \in SUBSET {"vue", "@"} }

\* A caller's config: plugins may be absent; base stands for the other fields.
ViteConfigInputs ==
  [ hasPlugins : BOOLEAN, plugins : PluginLists, alias : AliasInputs,
    base : {"/", "/docs/"} ]

\* config.plugins ?? []
PluginsOrEmpty(c) == IF c.hasPlugins THEN c.plugins ELSE <<>>

\* hasVitePlugins(plugins, names): some plugin of the list has one of the names.
hasVitePlugins(plugins, names) ==
  \E i \in 1..Len(plugins) : plugins[i] \in names

\* vite's mergeConfig(defaults, overrides) on the fields viteFinal passes:
\* arrays are concatenated, alias objects are spread one over the other,
\* fields the overrides do not name are kept.
mergeConfig(c, o) ==
  [ hasPlugins |-> TRUE,
    plugins |-> PluginsOrEmpty(c) \o o.plugins,
    alias |-> [k \in DOMAIN c.alias \cup DOMAIN o.alias |->
                 IF k \in DOMAIN o.alias THEN o.alias[k] ELSE c.alias[k]],
    base |-> c.base ]

\* A plausible slip: the Vue plugin is added without looking.
viteFinalAlwaysVue(c) ==
  mergeConfig(c, [plugins |-> <<VuePlugin, VueComponentMetaPlugin>>,
                  alias |-> [k \in {"vue"} |-> VueEsmBundler]])

viteFinal(c) ==
  LET plugins ==
        (IF ~hasVitePlugins(PluginsOrEmpty(c), {"vite:vue"})
         THEN <<VuePlugin>> ELSE <<>>)
        \o <<VueComponentMetaPlugin>>
  IN  mergeConfig(c, [plugins |-> plugins,
                      alias |-> [k \in {"vue"} |-> VueEsmBundler]])

InitVite ==
  /\ viteConfig \in {c \in ViteConfigInputs : ~c.hasPlugins => c.plugins = <<>>}
  /\ viteResult = <<>>
  /\ vitePc = "call"
  /\ IdleGvs
  /\ IdleAdd

CallViteFinal ==
  /\ vitePc = "call"
  /\ viteResult' = viteFinal(viteConfig)
  /\ vitePc' = "returned"
  /\ UNCHANGED <<viteConfig, gvsVars, addVars>>

NextVite == CallViteFinal

SpecVite == InitVite /\ [][NextVite]_vars

-----------------------------------------------------------------------------
(* Claims about add(), checked under Spec *)

Listed(m, name) ==
  m.hasAddons /\ \E i \in 1..Len(m.addons) : EntryMatches(m.addons[i], name)

Attempted(c) == calls[c] > 0

\* The main config as add() leaves it after a successful write.
Registered == MainObject(diskBefore.addons \o <<StringEntry(addonName)>>)

\* The config handle is no longer what readConfig loaded.
Appended == main \notin {NoAddonsField, diskBefore}

\* C1: the config is mutated (appendValueToArray, then writeConfig) only
\* after addDependencies has completed successfully; when addDependencies
\* fails the error propagates and the main config is never written.
C1_InstallBeforeConfigMutation ==
  /\ (Attempted("writeConfig") \/ Appended \/ disk /= diskBefore)
       => /\ Attempted("addDependencies")
          /\ thrownBy /= "addDependencies"
          /\ installed = <<addonWithVersion>>
  /\ thrownBy = "addDependencies"
       => /\ pc = "done"
          /\ outcome = "threw"
          /\ ~Attempted("writeConfig")
          /\ main = diskBefore
          /\ disk = diskBefore
          /\ installed = <<>>

C1_Witness ==
  /\ pc = "done"
  /\ thrownBy = "addDependencies"
  /\ depArgs = <<AddonDocs \o <<"@", "^">> \o V700>>
  /\ disk = diskBefore

\* C2: when the addons list of the main config holds an entry (a string, or
\* an object's name) that equals or ends with the addon name, add() installs
\* nothing, writes nothing, runs no hook, logs the already-present message
\* and returns normally (no collaborator call failing before the check).
C2_DuplicateIsNoOp ==
  (/\ pc = "done"
   /\ thrownBy = "none"
   /\ Attempted("getStorybookInfo")
   /\ env.mainConfig /= Undefined
   /\ Listed(diskBefore, addonName))
    => /\ outcome = "returned"
       /\ ~Attempted("addDependencies")
       /\ ~Attempted("writeConfig")
       /\ ~Attempted("postinstallAddon")
       /\ disk = diskBefore
       /\ log = <<Message("error", "already present", addonName)>>

\* C3: the spec handed to addDependencies is name@^v when v is a valid
\* semantic version or a bare number and name@v otherwise, where v is the
\* input version if given, else the tool version for a core addon when one
\* is available, else the registry's latest version.
C3_PackageSpec ==
  depArgs /= <<>> =>
    LET v == IF inputVersion /= Undefined THEN inputVersion
             ELSE IF addonName \in versions /\ env.storybookVersion /= Undefined
                  THEN env.storybookVersion
             ELSE env.latest
    IN  /\ depArgs = << IF SemVerValid(v) \/ AllDigits(v)
                        THEN addonName \o <<"@", "^">> \o v
                        ELSE addonName \o <<"@">> \o v >>
        /\ (addon = AddonDocs /\ env.storybookVersion = V700)
             => depArgs = <<AddonDocs \o <<"@", "^", "7", ".", "0", ".", "0">>>>
        /\ (addon = Aa /\ env.latest = V210)
             => depArgs = <<<<"a", "a", "@", "^", "2", ".", "1", ".", "0">>>>
        /\ addon = AddonDocs \o At \o VNext
             => depArgs = <<AddonDocs \o <<"@", "n", "e", "x", "t">>>>
        /\ addon = Aa \o At \o VMajor
             => depArgs = <<<<"a", "a", "@", "^", "7">>>>

C3_Witness ==
  /\ addon = AddonDocs
  /\ env.storybookVersion = V700
  /\ installed = <<AddonDocs \o <<"@", "^">> \o V700>>

\* The case of C4: "@storybook/addon-docs@7.0.1" on a project whose main
\* config exists and lacks the addon, every collaborator call succeeding.
C4_Case ==
  /\ addon = AddonDocs701
  /\ env.mainConfig /= Undefined
  /\ ~Listed(diskBefore, AddonDocs)
  /\ pc = "done"
  /\ outcome = "returned"

C4_Rest ==
  /\ calls["addDependencies"] = 1
  /\ calls["writeConfig"] = 1
  /\ disk = MainObject(diskBefore.addons \o <<StringEntry(AddonDocs)>>)
  /\ Len(postinstallArgs) = (IF options.skipPostinstall THEN 0 ELSE 1)

\* C4 as stated: one addDependencies call with the spec
\* @storybook/addon-docs@7.0.1, one write appending @storybook/addon-docs,
\* and one post-install call unless skipPostinstall is set.
C4_Original ==
  C4_Case => (depArgs = <<AddonDocs701>> /\ C4_Rest)

\* C4 as amended: the spec of the one addDependencies call is
\* @storybook/addon-docs@^7.0.1 (a valid version gets the caret).
C4_EndToEnd ==
  C4_Case => (depArgs = <<AddonDocs \o <<"@", "^">> \o V701>> /\ C4_Rest)

C4_Witness ==
  /\ C4_Case
  /\ ~options.skipPostinstall
  /\ Len(postinstallArgs) = 1

\* C5: when getStorybookInfo finds no main config, add() logs an error and
\* returns normally: no main config is loaded, no version queried, nothing
\* installed or written, no hook run.
C5_NoMainConfigSoftAbort ==
  (Attempted("getStorybookInfo") /\ env.mainConfig = Undefined)
    => /\ pc = "done"
       /\ outcome = "returned"
       /\ thrownBy = "none"
       /\ log = <<Message("error", "Unable to find main", Empty)>>
       /\ \A c \in {"serverRequire", "readConfig",
                    "getCoercedStorybookVersion", "latestVersion",
                    "addDependencies", "writeConfig", "postinstallAddon"} :
            ~Attempted(c)
       /\ installed = <<>>
       /\ disk = diskBefore

C5_Witness ==
  /\ Attempted("getStorybookInfo")
  /\ env.mainConfig = Undefined
  /\ outcome = "returned"

\* A directory was given: the value is neither undefined nor empty.
Given(dir) == dir \notin {Undefined, Empty}

\* C6 as stated: add() throws the configuration error, before any install or
\* write, whenever no --config-dir is given and none is inferred; otherwise
\* the directory is the flag if given, else the inferred one, else .storybook.
C6_Original ==
  Attempted("getStorybookInfo") =>
    IF ~Given(options.configDir) /\ ~Given(env.configDir)
    THEN /\ outcome = "threw"
         /\ thrownBy = "configDir"
         /\ ~Attempted("addDependencies")
         /\ ~Attempted("writeConfig")
    ELSE configDir = IF Given(options.configDir) THEN options.configDir
                     ELSE IF Given(env.configDir) THEN env.configDir
                     ELSE DotStorybook

\* C6 as amended: the configuration error is never thrown; the directory is
\* the flag if given, else the inferred one, else the default .storybook,
\* also when neither is given.
C6_ConfigDir ==
  Attempted("getStorybookInfo") =>
    /\ thrownBy /= "configDir"
    /\ configDir = IF Given(options.configDir) THEN options.configDir
                   ELSE IF Given(env.configDir) THEN env.configDir
                   ELSE DotStorybook

C6_Witness ==
  /\ Attempted("getStorybookInfo")
  /\ options.configDir = Undefined
  /\ env.configDir = Undefined
  /\ configDir = DotStorybook
  /\ pc = "coerce"

WriteCompleted == Attempted("writeConfig") /\ thrownBy /= "writeConfig"

\* C9: the post-install hook is called at most once, only for a core addon
\* with skipPostinstall false and only after writeConfig has completed
\* successfully, and then it is called: with the addon name, the package
\* manager's type and the config directory.
C9_PostinstallHook ==
  /\ calls["postinstallAddon"] = Len(postinstallArgs)
  /\ Len(postinstallArgs) <= 1
  /\ postinstallArgs /= <<>>
       => /\ addonName \in versions
          /\ ~options.skipPostinstall
          /\ WriteCompleted
          /\ disk = Registered
          /\ postinstallArgs =
               << [name |-> addonName,
                   packageManager |->
                     IF options.packageManager /= Undefined
                     THEN options.packageManager ELSE env.detected,
                   configDir |-> configDir] >>
  /\ (pc = "done" /\ WriteCompleted /\ addonName \in versions
        /\ ~options.skipPostinstall)
       => Len(postinstallArgs) = 1
  /\ (pc = "done" /\ postinstallArgs = <<>>)
       => (~WriteCompleted \/ addonName \notin versions
             \/ options.skipPostinstall)

C9_Witness ==
  /\ pc = "done"
  /\ addon = AddonDocs
  /\ options.packageManager = Pnpm
  /\ postinstallArgs =
       <<[name |-> AddonDocs, packageManager |-> Pnpm, configDir |-> CfgDir]>>

-----------------------------------------------------------------------------
(* Claim about getVersionSpecifier, checked under SpecGvs *)

\* The positions of the '@'s of s other than a leading one.
InnerAts(s) == {i \in 2..Len(s) : s[i] = "@"}

Max(S) == CHOOSE x \in S : \A y \in S : y <= x
Min(S) == CHOOSE x \in S : \A y \in S : x <= y

\* C7 as stated: the name is never empty and the split is made at the last
\* '@' that is not the leading scope separator; without such an '@' the
\* result is (input, undefined).
C7_Original ==
  gvsPc = "returned" =>
    /\ gvsResult[1] /= Empty
    /\ IF InnerAts(gvsInput) = {}
       THEN gvsResult = <<gvsInput, Undefined>>
       ELSE LET at == Max(InnerAts(gvsInput))
            IN  gvsResult = <<SubSeq(gvsInput, 1, at - 1), From(gvsInput, at + 1)>>

\* C7 as amended: the name is empty only for the empty input, and the split
\* is made at the first '@' that is not the leading one, when at least one
\* character other than '@' stands before it and a non-empty version without
\* a line terminator follows it; every other input comes back whole with an
\* undefined version.
C7_SplitAtFirstInnerAt ==
  gvsPc = "returned" =>
    LET s == gvsInput
        ats == InnerAts(s)
        at == Min(ats)
        splits ==
          /\ ats /= {}
          /\ \E i \in 1..(at - 1) : s[i] /= "@"
          /\ at < Len(s)
          /\ \A i \in (at + 1)..Len(s) : s[i] \notin {"\n", "\r"}
    IN  /\ (gvsResult[1] = Empty) <=> (s = Empty)
        /\ splits => gvsResult = <<SubSeq(s, 1, at - 1), From(s, at + 1)>>
        /\ ~splits => gvsResult = <<s, Undefined>>
        /\ s = AddonDocs \o At \o VNext => gvsResult = <<AddonDocs, VNext>>
        /\ s = Aa \o At \o VMajor => gvsResult = <<Aa, VMajor>>
        /\ s = AddonDocs => gvsResult = <<AddonDocs, Undefined>>

C7_Witness ==
  /\ gvsPc = "returned"
  /\ gvsInput = <<"a", "@", "a", "@">>
  /\ gvsResult = <<<<"a">>, <<"a", "@">>>>

-----------------------------------------------------------------------------
(* Claim about viteFinal, checked under SpecVite *)

Names(plugins) == {plugins[i] : i \in 1..Len(plugins)}

\* C8: the returned plugin list is the caller's plugins, then a default Vue
\* plugin exactly when the caller had no plugin named vite:vue, then the
\* component-metadata plugin; the caller's other fields and aliases are
\* kept, and the only alias added or overwritten is vue.
C8_ViteFinalMerge ==
  vitePc = "returned" =>
    LET given == IF viteConfig.hasPlugins THEN viteConfig.plugins ELSE <<>>
        added == IF "vite:vue" \in Names(given) THEN <<>> ELSE <<"vite:vue">>
    IN  /\ viteResult.plugins =
             given \o added \o <<"storybook:vue-component-meta-plugin">>
        /\ viteResult.base = viteConfig.base
        /\ DOMAIN viteResult.alias = DOMAIN viteConfig.alias \cup {"vue"}
        /\ \A k \in DOMAIN viteConfig.alias \ {"vue"} :
             viteResult.alias[k] = viteConfig.alias[k]
        /\ viteResult.alias["vue"] = "vue/dist/vue.esm-bundler.js"

C8_Witness ==
  /\ vitePc = "returned"
  /\ viteConfig.plugins = <<"vite:react", "vite:vue">>
  /\ viteResult.plugins =
       <<"vite:react", "vite:vue", "storybook:vue-component-meta-plugin">>
  /\ "@" \in DOMAIN viteResult.alias

=============================================================================
